---- MODULE Spec2Model ----
(***************************************************************************)
(* Model of the initiative Tracker of src/index.js: a roster of characters *)
(* (the turn order), a turn pointer and a round counter, kept in a lowdb   *)
(* document and changed by the Tracker's methods.                          *)
(*                                                                         *)
(* The roster is a sequence; TLA+ sequences are 1-based and the code's     *)
(* arrays 0-based, so the character at array index i is characters[i + 1]. *)
(* turn and every index below keep the code's 0-based values.              *)
(***************************************************************************)
EXTENDS Integers, Sequences, FiniteSets

\* Bounds of the model.
MaxChars == 3
MaxRound == 2

\* Inputs the callers pass.
Names == {"A", "B", "C"}
UserIDs == {"u1"}
\* <<initiative, dexterity>> pairs: two characters tie on both keys when they
\* are given the same pair, and differ in both, in opposite directions, when
\* they are given different pairs.
Stats == {<<1, 2>>, <<2, 1>>}
Initiatives == {s[1] : s \in Stats}
Dexterities == {s[2] : s \in Stats}

\* The two strings the methods throw, and the marker of a call that returned.
NotFound == "Character does not exist!"
Duplicate == "Character already exists!"
NoError == "none"

VARIABLES
    characters,   \* db "characters": the roster, in turn order
    turn,         \* db "turn": 0-based index of the character whose turn it is
    round,        \* db "round"
    last,         \* the last call made: the method and the error it threw
    file          \* the JSON text of the file at dataPath

vars == <<characters, turn, round, last, file>>

Character == [userID : UserIDs, name : Names, initiative : Initiatives, dexterity : Dexterities]

----------------------------------------------------------------------------
\* lodash helpers, as the Tracker calls them

\* _.find(chars, {name}) / _.findIndex(chars, {name}): the 0-based index of the
\* first character with that name, -1 when there is none.
findIndex(chars, name) ==
    IF \E i \in 1..Len(chars) : chars[i].name = name
    THEN (CHOOSE i \in 1..Len(chars) :
            /\ chars[i].name = name
            /\ \A j \in 1..(i - 1) : chars[j].name # name) - 1
    ELSE -1

characterExists(chars, name) == findIndex(chars, name) # -1

\* What a getter call comes to: the error it throws (NoError when it returns)
\* and the value it returns.
Thrown(err) == [err |-> err, value |-> "none"]
Returned(value) == [err |-> NoError, value |-> value]

getCharacterIndex(chars, name) ==
    IF ~characterExists(chars, name) THEN Thrown(NotFound)
    ELSE Returned(findIndex(chars, name))

getCharacterOwnerID(chars, targetName) ==
    IF ~characterExists(chars, targetName) THEN Thrown(NotFound)
    ELSE Returned(chars[findIndex(chars, targetName) + 1].userID)

userHasCharacter(chars, userID) == \E i \in 1..Len(chars) : chars[i].userID = userID

\* _.remove(chars, {name}): drops EVERY element the predicate matches.
RECURSIVE remove(_, _)
remove(chars, name) ==
    IF chars = <<>> THEN <<>>
    ELSE IF Head(chars).name = name THEN remove(Tail(chars), name)
         ELSE <<Head(chars)>> \o remove(Tail(chars), name)

\* _.matches(source)(object) on two characters: both carry the same four keys,
\* so the partial comparison is equality of the four values.
matches(object, source) ==
    /\ object.userID = source.userID
    /\ object.name = source.name
    /\ object.initiative = source.initiative
    /\ object.dexterity = source.dexterity

\* compareMultiple of baseOrderBy for the call of sortTracker: the wrapped
\* roster is orderBy's collection, so the roster passed explicitly lands in
\* `iteratees` (one _.matches predicate per character), the key list in
\* `orders` and the 'desc' list in `guard`, which clears `orders`.  Element i
\* is therefore ranked by the booleans <<matches(c_i, c_1), ..., matches(c_i, c_n)>>
\* ascending (false before true), ties by original index.
compareBefore(chars, i, j) ==
    LET n == Len(chars)
        differ == {k \in 1..n : matches(chars[i], chars[k]) # matches(chars[j], chars[k])}
    IN  IF differ = {} THEN i < j
        ELSE LET k == CHOOSE m \in differ : \A m2 \in differ : m <= m2
             IN  ~matches(chars[i], chars[k])

orderBy(chars) ==
    LET n == Len(chars)
        rank(i) == 1 + Cardinality({j \in 1..n : j # i /\ compareBefore(chars, j, i)})
    IN  [p \in 1..n |-> chars[CHOOSE i \in 1..n : rank(i) = p]]

----------------------------------------------------------------------------
\* Getters

characterCount == Len(characters)

\* What db.get("characters[turn]").value() gives when turn is past the roster.
undefined == [userID |-> "undefined", name |-> "undefined"]

currentCharacter ==
    IF turn + 1 \in 1..Len(characters) THEN characters[turn + 1] ELSE undefined

\* The db state the methods read and update.
tracker == [characters |-> characters, turn |-> turn, round |-> round]

----------------------------------------------------------------------------
\* The file behind the db.  A JSON text is modelled as the sequence of its
\* <<key, value>> members in the order they are written.

Members(text) == {text[i] : i \in 1..Len(text)}

Member(text, key) == (CHOOSE m \in Members(text) : m[1] = key)[2]

stringifyCharacter(c) ==
    << <<"userID", c.userID>>, <<"name", c.name>>,
       <<"initiative", c.initiative>>, <<"dexterity", c.dexterity>> >>

parseCharacter(text) ==
    [userID |-> Member(text, "userID"), name |-> Member(text, "name"),
     initiative |-> Member(text, "initiative"), dexterity |-> Member(text, "dexterity")]

\* JSON.stringify of the db state, as FileSync writes it.
stringify(db) ==
    << <<"round", db.round>>, <<"turn", db.turn>>,
       <<"characters", [i \in 1..Len(db.characters) |-> stringifyCharacter(db.characters[i])]>> >>

\* JSON.parse of the file, as FileSync reads it: the keys the text holds.
parse(text) ==
    [key \in {m[1] : m \in Members(text)} |->
        IF key = "characters"
        THEN [i \in 1..Len(Member(text, key)) |-> parseCharacter(Member(text, key)[i])]
        ELSE Member(text, key)]

\* The text FileSync creates when there is no file at dataPath: "{}".
emptyFile == <<>>

\* db.defaults({round: 0, turn: 0, characters: []}): a key the document has
\* keeps its value.
defaults(doc) ==
    LET source == [round |-> 0, turn |-> 0, characters |-> <<>>]
    IN  [key \in DOMAIN source |-> IF key \in DOMAIN doc THEN doc[key] ELSE source[key]]

\* .write(): the db state the call leaves goes to the file.
write == file' = stringify(tracker')

----------------------------------------------------------------------------
\* What nextTurn and removeCharacter make of a db state

\* nextTurnOn as it would be if it wrapped one position early, before the
\* last character of the roster.
nextTurnOnWrapsEarly(db) ==
    IF db.turn < Len(db.characters) - 2
    THEN [db EXCEPT !.turn = @ + 1]
    ELSE [characters |-> orderBy(db.characters), turn |-> 0, round |-> db.round + 1]

nextTurnOn(db) ==
    IF db.turn < Len(db.characters) - 1
    THEN [db EXCEPT !.turn = @ + 1]
    ELSE [characters |-> orderBy(db.characters), turn |-> 0, round |-> db.round + 1]

\* removeCharacterOn as it would be if the wraparound branch forgot to put the
\* turn pointer back to 0.
removeCharacterOnKeepsTurn(db, name) ==
    IF ~characterExists(db.characters, name) THEN db
    ELSE LET foundIndex == getCharacterIndex(db.characters, name).value
             removed == remove(db.characters, name)
         IN  IF foundIndex < db.turn
             THEN [db EXCEPT !.characters = removed, !.turn = @ - 1]
             ELSE IF foundIndex = db.turn /\ foundIndex = Len(db.characters) - 1
             THEN [characters |-> removed, turn |-> db.turn, round |-> db.round + 1]
             ELSE [db EXCEPT !.characters = removed]

\* The db state after removeCharacter(name); the state itself when it throws.
removeCharacterOn(db, name) ==
    IF ~characterExists(db.characters, name) THEN db
    ELSE LET foundIndex == getCharacterIndex(db.characters, name).value
             removed == remove(db.characters, name)
         IN  IF foundIndex < db.turn
             THEN [db EXCEPT !.characters = removed, !.turn = @ - 1]
             ELSE IF foundIndex = db.turn
             THEN IF foundIndex = Len(db.characters) - 1
                  THEN [characters |-> removed, turn |-> 0, round |-> db.round + 1]
                  ELSE [db EXCEPT !.characters = removed]
             ELSE [db EXCEPT !.characters = removed]

----------------------------------------------------------------------------
\* new Tracker(dataPath) with no file at dataPath yet.
Init ==
    LET db == defaults(parse(emptyFile))
    IN  /\ characters = db.characters
        /\ turn = db.turn
        /\ round = db.round
        /\ file = stringify(db)
        /\ last = [op |-> "constructor", err |-> NoError]

Call(op, err) == last' = [op |-> op, err |-> err]

\* addCharacter as it would be if it re-sorted the roster after the push.
addCharacterSorted(userID, name, initiative, dexterity) ==
    /\ Len(characters) < MaxChars \/ characterExists(characters, name)
    /\ IF characterExists(characters, name)
       THEN /\ Call("addCharacter", Duplicate)
            /\ UNCHANGED <<characters, turn, round, file>>
       ELSE /\ characters' = orderBy(Append(characters,
                   [userID |-> userID, name |-> name,
                    initiative |-> initiative, dexterity |-> dexterity]))
            /\ Call("addCharacter", NoError)
            /\ UNCHANGED <<turn, round>>
            /\ write

\* addCharacter as it would be without the characterExists check.
addCharacterUnchecked(userID, name, initiative, dexterity) ==
    /\ Len(characters) < MaxChars
    /\ characters' = Append(characters,
           [userID |-> userID, name |-> name,
            initiative |-> initiative, dexterity |-> dexterity])
    /\ Call("addCharacter", NoError)
    /\ UNCHANGED <<turn, round>>
    /\ write

addCharacter(userID, name, initiative, dexterity) ==
    /\ Len(characters) < MaxChars \/ characterExists(characters, name)
    /\ IF characterExists(characters, name)
       THEN /\ Call("addCharacter", Duplicate)
            /\ UNCHANGED <<characters, turn, round, file>>
       ELSE /\ characters' = Append(characters,
                   [userID |-> userID, name |-> name,
                    initiative |-> initiative, dexterity |-> dexterity])
            /\ Call("addCharacter", NoError)
            /\ UNCHANGED <<turn, round>>
            /\ write

\* editCharacter as it would be if it removed the character and pushed the
\* edited one, instead of assigning in place.
editCharacterReAdded(name, newname, initiative, dexterity) ==
    IF ~characterExists(characters, name)
    THEN /\ Call("editCharacter", NotFound)
         /\ UNCHANGED <<characters, turn, round, file>>
    ELSE LET i == findIndex(characters, name) + 1
         IN  /\ characters' = Append(
                    SubSeq(characters, 1, i - 1) \o SubSeq(characters, i + 1, Len(characters)),
                    [userID |-> characters[i].userID, name |-> newname,
                     initiative |-> initiative, dexterity |-> dexterity])
             /\ Call("editCharacter", NoError)
             /\ UNCHANGED <<turn, round>>
             /\ write

editCharacter(name, newname, initiative, dexterity) ==
    IF ~characterExists(characters, name)
    THEN /\ Call("editCharacter", NotFound)
         /\ UNCHANGED <<characters, turn, round, file>>
    ELSE LET i == findIndex(characters, name) + 1
         IN  /\ characters' = [characters EXCEPT ![i] =
                    [userID |-> characters[i].userID, name |-> newname,
                     initiative |-> initiative, dexterity |-> dexterity]]
             /\ Call("editCharacter", NoError)
             /\ UNCHANGED <<turn, round>>
             /\ write

\* removeCharacter as it would be if removing the turn holder always completed
\* the round, the test for the last index left out.
removeCharacterAlwaysWraps(name) ==
    IF ~characterExists(characters, name)
    THEN /\ Call("removeCharacter", NotFound)
         /\ UNCHANGED <<characters, turn, round, file>>
    ELSE LET foundIndex == getCharacterIndex(characters, name).value
         IN  /\ Call("removeCharacter", NoError)
             /\ IF foundIndex < turn
                THEN /\ characters' = remove(characters, name)
                     /\ turn' = turn - 1
                     /\ UNCHANGED round
                     /\ write
                ELSE IF foundIndex = turn
                THEN /\ round < MaxRound
                     /\ round' = round + 1
                     /\ turn' = 0
                     /\ characters' = remove(characters, name)
                     /\ write
                ELSE /\ characters' = remove(characters, name)
                     /\ UNCHANGED <<turn, round>>
                     /\ write

removeCharacter(name) ==
    IF ~characterExists(characters, name)
    THEN /\ Call("removeCharacter", NotFound)
         /\ UNCHANGED <<characters, turn, round, file>>
    ELSE LET db == removeCharacterOn(tracker, name)
         IN  /\ Call("removeCharacter", NoError)
             /\ db.round <= MaxRound
             /\ characters' = db.characters
             /\ turn' = db.turn
             /\ round' = db.round
             /\ write

\* sortTracker as it would be if it also put the turn pointer back on the top
\* of the new order.
sortTrackerFromTop ==
    /\ characters' = orderBy(characters)
    /\ turn' = 0
    /\ Call("sortTracker", NoError)
    /\ UNCHANGED round
    /\ write

sortTracker ==
    /\ characters' = orderBy(characters)
    /\ Call("sortTracker", NoError)
    /\ UNCHANGED <<turn, round>>
    /\ write

\* nextTurn as it would be if the sort were called after the if/else instead of
\* inside the else branch.
nextTurnSortsAlways ==
    /\ Call("nextTurn", NoError)
    /\ IF turn < characterCount - 1
       THEN /\ turn' = turn + 1
            /\ UNCHANGED round
       ELSE /\ round < MaxRound
            /\ turn' = 0
            /\ round' = round + 1
    /\ characters' = orderBy(characters)
    /\ write

nextTurn ==
    LET db == nextTurnOn(tracker)
    IN  /\ Call("nextTurn", NoError)
        /\ db.round <= MaxRound
        /\ characters' = db.characters
        /\ turn' = db.turn
        /\ round' = db.round
        /\ write

\* startCombat as it would be if it also put the roster in order for the fight.
startCombatSorted ==
    /\ round' = 1
    /\ turn' = 0
    /\ Call("startCombat", NoError)
    /\ characters' = orderBy(characters)
    /\ write

startCombat ==
    /\ round' = 1
    /\ turn' = 0
    /\ Call("startCombat", NoError)
    /\ UNCHANGED characters
    /\ write

\* reset as it would be if it wiped the roster whatever the argument.
resetAlwaysWipes(wipe) ==
    /\ characters' = <<>>
    /\ round' = 0
    /\ turn' = 0
    /\ Call("reset", NoError)
    /\ write

\* The default of reset's parameter.
wipeDefault == TRUE

reset(wipe) ==
    /\ characters' = IF wipe THEN <<>> ELSE characters
    /\ round' = 0
    /\ turn' = 0
    /\ Call("reset", NoError)
    /\ write

Next ==
    \/ \E u \in UserIDs, n \in Names, s \in Stats :
          addCharacter(u, n, s[1], s[2])
    \/ \E n \in Names, nn \in Names, s \in Stats :
          editCharacter(n, nn, s[1], s[2])
    \/ \E n \in Names : removeCharacter(n)
    \/ nextTurn
    \/ startCombat
    \/ sortTracker
    \/ \E w \in BOOLEAN : reset(w)
    \/ reset(wipeDefault)

Spec == Init /\ [][Next]_vars

----------------------------------------------------------------------------
\* The setters, and a new Tracker on the file the last one left

\* Values a caller hands to the setters.
TurnIndexes == 0..MaxChars
RoundIndexes == 0..MaxRound

turnIndex(index) ==
    /\ turn' = index
    /\ Call("turnIndex", NoError)
    /\ UNCHANGED <<characters, round>>
    /\ write

roundIndex(index) ==
    /\ round' = index
    /\ Call("roundIndex", NoError)
    /\ UNCHANGED <<characters, turn>>
    /\ write

\* The constructor as it would be if it set the default values instead of
\* filling in the missing ones.
constructorOverwrites ==
    /\ characters' = <<>>
    /\ turn' = 0
    /\ round' = 0
    /\ Call("constructor", NoError)
    /\ write

constructor ==
    LET db == defaults(parse(file))
    IN  /\ characters' = db.characters
        /\ turn' = db.turn
        /\ round' = db.round
        /\ Call("constructor", NoError)
        /\ write

NextStore ==
    \/ Next
    \/ \E index \in TurnIndexes : turnIndex(index)
    \/ \E index \in RoundIndexes : roundIndex(index)
    \/ constructor

SpecStore == Init /\ [][NextStore]_vars

----------------------------------------------------------------------------
\* One round of combat: a Tracker on a file that holds the start of a round,
\* then nextTurn, addCharacter and removeCharacter in any order

\* The characters addCharacter can have pushed.
Added ==
    {[userID |-> u, name |-> n, initiative |-> s[1], dexterity |-> s[2]] :
        u \in UserIDs, n \in Names, s \in Stats}

\* The db states addCharacter calls on the default state lead to: turn 0 and a
\* non-empty roster of characters with different names.
RoundStarts ==
    {[characters |-> chars, turn |-> 0, round |-> 0] :
        chars \in {c \in UNION {[1..n -> Added] : n \in 1..MaxChars} :
                      \A p, q \in 1..Len(c) : p # q => c[p].name # c[q].name}}

InitRound ==
    \E start \in RoundStarts :
        LET db == defaults(parse(stringify(start)))
        IN  /\ file = stringify(start)
            /\ characters = db.characters
            /\ turn = db.turn
            /\ round = db.round
            /\ last = [op |-> "constructor", err |-> NoError]

NextRound ==
    \/ nextTurn
    \/ \E u \in UserIDs, n \in Names, s \in Stats : addCharacter(u, n, s[1], s[2])
    \/ \E n \in Names : removeCharacter(n)

SpecRound == InitRound /\ [][NextRound]_vars

----------------------------------------------------------------------------
\* Vocabulary of the properties

TypeOK ==
    /\ characters \in Seq(Character)
    /\ Len(characters) <= MaxChars
    /\ turn \in 0..MaxChars
    /\ round \in 0..MaxRound
    /\ last.op \in {"constructor", "addCharacter", "editCharacter", "removeCharacter",
                    "sortTracker", "nextTurn", "startCombat", "reset",
                    "turnIndex", "roundIndex"}
    /\ last.err \in {NoError, NotFound, Duplicate}

\* chars without the element at 0-based index i.
RemoveAt(chars, i) == SubSeq(chars, 1, i) \o SubSeq(chars, i + 2, Len(chars))

\* c1 may stand directly before c2 in (initiative desc, dexterity desc) order.
InOrder(c1, c2) ==
    \/ c1.initiative > c2.initiative
    \/ c1.initiative = c2.initiative /\ c1.dexterity >= c2.dexterity

SameKeys(c1, c2) == c1.initiative = c2.initiative /\ c1.dexterity = c2.dexterity

IsOrdered(chars) == \A p \in 1..(Len(chars) - 1) : InOrder(chars[p], chars[p + 1])

Occurrences(chars, c) == Cardinality({p \in 1..Len(chars) : chars[p] = c})

IsPermutation(a, b) ==
    /\ Len(a) = Len(b)
    /\ \A p \in 1..Len(a) : Occurrences(a, a[p]) = Occurrences(b, a[p])

\* The stable sort by (initiative desc, dexterity desc): element i goes after
\* every element with better keys and every earlier element with equal keys.
StableSorted(chars) ==
    LET n == Len(chars)
        before(j, i) == \/ ~InOrder(chars[i], chars[j])
                        \/ SameKeys(chars[i], chars[j]) /\ j < i
        rank(i) == 1 + Cardinality({j \in 1..n : before(j, i)})
    IN  [p \in 1..n |-> chars[CHOOSE i \in 1..n : rank(i) = p]]

UniqueNames(chars) ==
    \A p, q \in 1..Len(chars) : p # q => chars[p].name # chars[q].name

----------------------------------------------------------------------------
\* Properties

\* C1: whenever the roster is non-empty, 0 <= turn < characterCount.
C1_TurnWithinRoster ==
    Len(characters) > 0 => (0 <= turn /\ turn < Len(characters))

\* C2: no two characters of the roster have the same name.
C2_NamesUnique == UniqueNames(characters)

\* C3: when 0 <= turn < n, removing the character at an index i # turn by its
\* name removes exactly that character, keeps the order of the others, leaves
\* round unchanged, moves turn down by one when i < turn and leaves it alone
\* when i > turn, so the current character is the same before and after.
C3_RemoveOtherKeepsCurrent ==
    [][\A i \in 0..(Len(characters) - 1) :
          (/\ 0 <= turn /\ turn < Len(characters)
           /\ i # turn
           /\ removeCharacter(characters[i + 1].name))
          => /\ characters' = RemoveAt(characters, i)
             /\ round' = round
             /\ turn' = (IF i < turn THEN turn - 1 ELSE turn)
             /\ currentCharacter' = currentCharacter]_vars

\* C4: when turn = i < n - 1, removing the character at index i by its name
\* leaves turn and round unchanged, removes exactly that character, keeps the
\* order of the others, and the character that was at index i + 1 is current.
C4_RemoveCurrentNotLast ==
    [][(/\ 0 <= turn /\ turn < Len(characters) - 1
        /\ removeCharacter(characters[turn + 1].name))
       => /\ turn' = turn
          /\ round' = round
          /\ characters' = RemoveAt(characters, turn)
          /\ currentCharacter' = characters[turn + 2]]_vars

\* C5: when n >= 1 and turn = n - 1, removing the character at index n - 1 by
\* its name adds exactly 1 to round, sets turn to 0 and leaves the roster
\* without that one character, the others in unchanged order.
C5_RemoveCurrentLast ==
    [][(/\ Len(characters) >= 1
        /\ turn = Len(characters) - 1
        /\ removeCharacter(characters[turn + 1].name))
       => /\ round' = round + 1
          /\ turn' = 0
          /\ characters' = RemoveAt(characters, turn)]_vars

\* C6: nextTurn on a non-empty roster with turn = n - 1 sets turn to 0, adds
\* exactly 1 to round and leaves the same characters ordered by initiative
\* descending, then dexterity descending.
C6_NextTurnWrapSorts ==
    [][(/\ last'.op = "nextTurn"
        /\ Len(characters) >= 1
        /\ turn = Len(characters) - 1)
       => /\ turn' = 0
          /\ round' = round + 1
          /\ IsPermutation(characters, characters')
          /\ IsOrdered(characters')]_vars

\* C7: nextTurn with turn < n - 1 adds exactly 1 to turn and leaves round and
\* the roster, content and order, unchanged.
C7_NextTurnAdvances ==
    [][(last'.op = "nextTurn" /\ turn < Len(characters) - 1)
       => /\ turn' = turn + 1
          /\ round' = round
          /\ characters' = characters]_vars

C7_Witness ==
    /\ last.op = "nextTurn"
    /\ turn = 2
    /\ Len(characters) = 3
    /\ ~IsOrdered(characters)

\* C8: after sortTracker the roster is the stable sort of the roster before by
\* (initiative descending, dexterity descending).
C8_SortIsStableSort ==
    [][last'.op = "sortTracker"
       => /\ characters' = StableSorted(characters)
          /\ IsOrdered(characters')]_vars

\* C9: sortTracker leaves an already ordered roster as it is, and sorting the
\* result once more does not change it.
C9_SortIdempotent ==
    [][last'.op = "sortTracker"
       => /\ IsOrdered(characters) => characters' = characters
          /\ orderBy(characters') = characters']_vars

\* C10: sortTracker leaves turn and round unchanged, and the roster after it is
\* a permutation of the roster before it.
C10_SortOnlyReorders ==
    [][last'.op = "sortTracker"
       => /\ turn' = turn
          /\ round' = round
          /\ IsPermutation(characters, characters')]_vars

C10_Witness ==
    /\ last.op = "sortTracker"
    /\ turn > 0
    /\ round > 0
    /\ Len(characters) = 3
    /\ characters[1] # characters[3]

\* C11: removeCharacter and editCharacter with a name not in the roster, and
\* the getters getCharacterIndex and getCharacterOwnerID with such a name, throw
\* the not-found error; addCharacter with a name in the roster throws the
\* duplicate error; a call that throws leaves round, turn and the roster as
\* they were.
C11_FailureChangesNothing ==
    /\ [](/\ \A n \in Names :
               ~characterExists(characters, n)
               => /\ ~ENABLED (removeCharacter(n) /\ last'.err # NotFound)
                  /\ ~ENABLED (\E nn \in Names, s \in Stats :
                                 editCharacter(n, nn, s[1], s[2]) /\ last'.err # NotFound)
                  /\ getCharacterIndex(characters, n).err = NotFound
                  /\ getCharacterOwnerID(characters, n).err = NotFound
          /\ \A n \in Names :
               characterExists(characters, n)
               => ~ENABLED (\E u \in UserIDs, s \in Stats :
                              addCharacter(u, n, s[1], s[2]) /\ last'.err # Duplicate))
    /\ [][last'.err # NoError
          => /\ characters' = characters
             /\ turn' = turn
             /\ round' = round]_vars

C11_Witness ==
    /\ last.op = "addCharacter"
    /\ last.err = Duplicate
    /\ Len(characters) = 2
    /\ turn = 1
    /\ round = 1
    /\ \E n \in Names : getCharacterOwnerID(characters, n).err = NotFound

\* C12: addCharacter with a name not in the roster returns; a call that
\* returned has put the new character last, left the characters before it, turn
\* and round as they were, characterExists of its name is true, and another
\* addCharacter with that name throws the duplicate error.
C12_AddAppends ==
    /\ [](/\ \A n \in Names :
               (~characterExists(characters, n) /\ Len(characters) < MaxChars)
               => /\ ENABLED (\E u \in UserIDs, s \in Stats : addCharacter(u, n, s[1], s[2]))
                  /\ ~ENABLED (\E u \in UserIDs, s \in Stats :
                                 addCharacter(u, n, s[1], s[2]) /\ last'.err # NoError)
          /\ (last.op = "addCharacter" /\ last.err = NoError)
               => LET n == characters[Len(characters)].name
                  IN  /\ characterExists(characters, n)
                      /\ ENABLED (\E u \in UserIDs, s \in Stats : addCharacter(u, n, s[1], s[2]))
                      /\ ~ENABLED (\E u \in UserIDs, s \in Stats :
                                     addCharacter(u, n, s[1], s[2]) /\ last'.err # Duplicate))
    /\ [][(last'.op = "addCharacter" /\ last'.err = NoError)
          => /\ Len(characters') = Len(characters) + 1
             /\ SubSeq(characters', 1, Len(characters)) = characters
             /\ characters'[Len(characters')] \in Character
             /\ ~characterExists(characters, characters'[Len(characters')].name)
             /\ turn' = turn
             /\ round' = round]_vars

C12_Witness ==
    /\ last.op = "addCharacter"
    /\ last.err = NoError
    /\ Len(characters) = 3
    /\ turn = 1
    /\ round = 1
    /\ ~IsOrdered(characters)
    /\ orderBy(characters) # characters

C14_StartCombat ==
    /\ [](last.op = "startCombat"
            => ~ENABLED (/\ startCombat
                         /\ <<characters', turn', round'>> # <<characters, turn, round>>))
    /\ [][last'.op = "startCombat"
          => /\ last'.err = NoError
             /\ round' = 1
             /\ turn' = 0
             /\ characters' = characters]_vars

C14_Witness ==
    /\ last.op = "startCombat"
    /\ Len(characters) = 3
    /\ orderBy(characters) # characters
    /\ ~IsOrdered(characters)
    /\ ENABLED startCombat

\* C15: reset(true), and reset() with the default argument, leave an empty
\* roster, round 0 and turn 0; reset(false) leaves round 0, turn 0 and the
\* roster, content and order, as it was.
C15_Reset ==
    [][last'.op = "reset"
       => /\ last'.err = NoError
          /\ round' = 0
          /\ turn' = 0
          /\ reset(TRUE) => Len(characters') = 0
          /\ reset(wipeDefault) => Len(characters') = 0
          /\ reset(FALSE) => characters' = characters
          /\ reset(TRUE) \/ reset(FALSE)]_vars

C15_Witness ==
    /\ last.op = "reset"
    /\ Len(characters) = 3
    /\ turn = 0
    /\ round = 0

\* C16: in every step round goes up by exactly 1 (a nextTurn that wraps, a
\* removeCharacter of the last-in-order turn holder), becomes 1 (startCombat),
\* becomes 0 (reset) or stays; addCharacter, editCharacter, sortTracker, a
\* nextTurn that does not wrap, every other removeCharacter and every call that
\* throws leave it as it was; round is never negative.
C16_RoundSteps ==
    [][/\ round' >= 0
       /\ last'.err # NoError => round' = round
       /\ last'.op \in {"addCharacter", "editCharacter", "sortTracker"} => round' = round
       /\ last'.op = "nextTurn"
            => round' = (IF turn < Len(characters) - 1 THEN round ELSE round + 1)
       /\ last'.op = "removeCharacter"
            => \/ round' = round
               \/ /\ round' = round + 1
                  /\ Len(characters) >= 1
                  /\ turn = Len(characters) - 1
                  /\ ~characterExists(characters', characters[turn + 1].name)
       /\ last'.op = "startCombat" => round' = 1
       /\ last'.op = "reset" => round' = 0
       /\ last'.op \in {"addCharacter", "editCharacter", "sortTracker", "nextTurn",
                        "removeCharacter", "startCombat", "reset"}]_vars

C16_Witness ==
    /\ last.op = "removeCharacter"
    /\ last.err = NoError
    /\ round = 2
    /\ turn = 0
    /\ Len(characters) = 2

\* C17 as claimed: with n >= 1 and turn = n - 1, removeCharacter of the
\* character at index n - 1 gives the same round, turn and roster as nextTurn
\* followed by removeCharacter of that character.
C17_RemoveIsNextTurnThenRemove ==
    (Len(characters) >= 1 /\ turn = Len(characters) - 1)
    => LET name == characters[turn + 1].name
       IN  removeCharacterOn(tracker, name) = removeCharacterOn(nextTurnOn(tracker), name)

\* C17 as amended: with n >= 1 and turn = n - 1, removeCharacter of the
\* character at index n - 1 leaves the same characters as nextTurn followed by
\* that removeCharacter, the order apart; when removeCharacter finds the name at
\* index n - 1 and n >= 2 the two also agree on round and turn, and when n = 1
\* they agree on turn and the route through nextTurn ends one round later.
C17_RemoveVersusNextTurnThenRemove ==
    (Len(characters) >= 1 /\ turn = Len(characters) - 1)
    => LET name == characters[turn + 1].name
           direct == removeCharacterOn(tracker, name)
           viaNext == removeCharacterOn(nextTurnOn(tracker), name)
       IN  /\ IsPermutation(direct.characters, viaNext.characters)
           /\ (Len(characters) >= 2 /\ getCharacterIndex(characters, name).value = turn)
                => /\ direct.round = viaNext.round
                   /\ direct.turn = viaNext.turn
           /\ Len(characters) = 1
                => /\ direct.turn = viaNext.turn
                   /\ viaNext.round = direct.round + 1

C17_Witness ==
    /\ Len(characters) = 3
    /\ turn = 2
    /\ last.op = "nextTurn"
    /\ UniqueNames(characters)
    /\ LET name == characters[turn + 1].name
       IN  removeCharacterOn(tracker, name).characters
             # removeCharacterOn(nextTurnOn(tracker), name).characters

\* C18: after every call the file holds the db state in memory, round, turn
\* and characters, and a new Tracker on that file has the same round, turn and
\* characters as the one before it: the defaults overwrite nothing.
C18_FileHoldsState ==
    /\ [](parse(file) = tracker)
    /\ [][last'.op = "constructor"
          => /\ characters' = characters
             /\ turn' = turn
             /\ round' = round]_vars

C18_Witness ==
    /\ last.op = "constructor"
    /\ Len(characters) = 3
    /\ turn = 3
    /\ round = 2
    /\ parse(file) = tracker

----------------------------------------------------------------------------
\* Who has had the turn in the round that is going on: the names before the
\* turn pointer, the name at it, and the names after it.
RosterNames == {characters[p].name : p \in 1..Len(characters)}
Done == {characters[p].name : p \in 1..Len(characters) \cap 1..turn}
Holder == IF currentCharacter = undefined THEN {} ELSE {currentCharacter.name}
Waiting == {characters[p].name : p \in (turn + 2)..Len(characters)}

\* C19: from a round start (turn 0, a non-empty roster of different names),
\* under nextTurn, addCharacter and removeCharacter alone, every character gets
\* exactly one turn per round.  A character of the roster is waiting, holds the
\* turn, or is done, and only one holds it.  While the round goes on, a waiting
\* character stays waiting or takes the turn, the holder keeps the turn or is
\* done, a done character stays done (so the turn is held in one stretch and
\* never a second time), nobody is done without having held the turn (none is
\* skipped) and a character that joins the roster waits or takes the turn.
\* The round number only goes up by one, with the turn back at 0, and only
\* when nobody is waiting: whoever was added has held the turn by then.
C19_OneTurnPerRound ==
    /\ [](/\ UniqueNames(characters)
          /\ RosterNames = Done \cup Holder \cup Waiting
          /\ Cardinality(Holder) = (IF characters = <<>> THEN 0 ELSE 1)
          /\ Done \cap Holder = {} /\ Holder \cap Waiting = {} /\ Done \cap Waiting = {})
    /\ [][IF round' = round
          THEN /\ (Waiting \cap RosterNames') \subseteq (Waiting' \cup Holder')
               /\ (Holder \cap RosterNames') \subseteq (Holder' \cup Done')
               /\ (Done \cap RosterNames') \subseteq Done'
               /\ Done' \subseteq (Done \cup Holder)
               /\ (RosterNames' \ RosterNames) \subseteq (Waiting' \cup Holder')
          ELSE /\ round' = round + 1
               /\ turn' = 0
               /\ Waiting = {}]_vars

\* A second round is going on: one character is done, one holds the turn and
\* the one just added waits.
C19_Witness ==
    /\ last = [op |-> "addCharacter", err |-> NoError]
    /\ round = 1
    /\ Cardinality(Done) = 1
    /\ Cardinality(Holder) = 1
    /\ Cardinality(Waiting) = 1

\* C20: an empty roster keeps the turn pointer at 0 in every state the public
\* mutators reach from the default state (the setters left out), so that the
\* first character added afterwards is currentCharacter.
C20_EmptyRosterTurnZero == characters = <<>> => turn = 0

====
